---- MODULE Spec2Model ----
(***************************************************************************)
(* Daylight duration (src/day_duration.py).                                *)
(*                                                                         *)
(* Real numbers are fixed-point integers: the real x is the integer        *)
(* round(x * Scale), Scale = 10^6.  Every arithmetic helper keeps its      *)
(* intermediate products below 2^31.  numpy's sin, cos, tan and arccos are *)
(* computed (range reduction + Taylor series, bisection), never tabulated, *)
(* so the declination formulas and the hour-angle formula below are        *)
(* evaluated term by term as the source evaluates them.                    *)
(***************************************************************************)
EXTENDS Integers, Sequences, FiniteSets, TLC

\* ------------------------------------------------------------- bounds
\* samples per day of the day-of-year inputs: day = k / DayRes
DayRes == 1
\* latitude grid: NLat steps between the equator and each pole
NLat == 6

\* ------------------------------------------------- fixed-point reals
Scale == 1000 * 1000

\* model of an overflowed / infinite float (x / 0.0 in numpy is +-inf)
Huge == 500 * Scale

\* a local that has not been assigned yet
Unset == 0 - (Huge + 1)

Abs(x) == IF x < 0 THEN 0 - x ELSE x

Sgn(x) == IF x < 0 THEN 0 - 1 ELSE 1

\* a / b rounded to nearest, a >= 0, b > 0
RDivNat(a, b) == (a \div b) + (IF 2 * (a % b) >= b THEN 1 ELSE 0)

\* a / b rounded to nearest, b > 0
RDiv(a, b) == Sgn(a) * RDivNat(Abs(a), b)

\* float product: a * b / Scale, by limbs of 1000
MulFix(a, b) ==
  LET A  == Abs(a)
      B  == Abs(b)
      ah == A \div 1000
      al == A % 1000
      bh == B \div 1000
      bl == B % 1000
  IN  Sgn(a) * Sgn(b)
        * (ah * bh + RDivNat(ah * bl + al * bh + RDivNat(al * bl, 1000), 1000))

\* float quotient: a * Scale / b, by long division in base 100;
\* a zero divisor gives the signed infinity numpy gives
DivFix(a, b) ==
  IF b = 0 THEN Sgn(a) * Huge
  ELSE
    LET A  == Abs(a)
        B  == Abs(b)
        q0 == A \div B
        r0 == A % B
        q1 == (r0 * 100) \div B
        r1 == (r0 * 100) % B
        q2 == (r1 * 100) \div B
        r2 == (r1 * 100) % B
        q3 == RDivNat(r2 * 100, B)
    IN  IF q0 >= Huge \div Scale THEN Sgn(a) * Sgn(b) * Huge
        ELSE Sgn(a) * Sgn(b) * (q0 * Scale + q1 * 10000 + q2 * 100 + q3)

\* the rational n / d as a fixed-point real, n >= 0, d > 0 small
RatioFix(n, d) == (n \div d) * Scale + RDivNat((n % d) * Scale, d)

\* np.pi
Pi == 3141593

HalfPi == Pi \div 2

QuarterPi == Pi \div 4

TwoPi == 2 * Pi - 1

\* np.radians(x) = x * pi / 180, with pi / 180 = 71 / 4068 (355/113 for pi)
Radians(x) ==
  LET A == Abs(x)
  IN  Sgn(x) * ((A \div 4068) * 71 + RDivNat((A % 4068) * 71, 4068))

\* np.degrees(x) = x * 180 / pi
Degrees(x) == DivFix(180 * x, Pi)

\* Taylor series of sin on [-pi/4, pi/4]
SinT(y) ==
  LET y2  == MulFix(y, y)
      t3  == RDiv(MulFix(y, y2), 6)
      t5  == RDiv(MulFix(t3, y2), 20)
      t7  == RDiv(MulFix(t5, y2), 42)
      t9  == RDiv(MulFix(t7, y2), 72)
      t11 == RDiv(MulFix(t9, y2), 110)
  IN  y - t3 + t5 - t7 + t9 - t11

\* Taylor series of cos on [-pi/4, pi/4]
CosT(y) ==
  LET y2  == MulFix(y, y)
      c2  == RDiv(y2, 2)
      c4  == RDiv(MulFix(c2, y2), 12)
      c6  == RDiv(MulFix(c4, y2), 30)
      c8  == RDiv(MulFix(c6, y2), 56)
      c10 == RDiv(MulFix(c8, y2), 90)
  IN  Scale - c2 + c4 - c6 + c8 - c10

\* sin and cos never leave [-1, 1]
Unit(v) == IF v > Scale THEN Scale ELSE IF v < 0 - Scale THEN 0 - Scale ELSE v

\* the angle x brought into [0, TwoPi)
Reduce(x) == x % TwoPi

\* sin of an angle in [0, pi]
SinHalf(a) ==
  IF a <= QuarterPi THEN SinT(a)
  ELSE IF a <= HalfPi + QuarterPi THEN CosT(a - HalfPi)
  ELSE SinT(Pi - a)

\* cos of an angle in [0, pi]
CosHalf(a) ==
  IF a <= QuarterPi THEN CosT(a)
  ELSE IF a <= HalfPi + QuarterPi THEN 0 - SinT(a - HalfPi)
  ELSE 0 - CosT(Pi - a)

\* np.sin
Sin(x) ==
  LET r == Reduce(Abs(x))
      v == IF r <= Pi THEN SinHalf(r) ELSE 0 - SinHalf(TwoPi - r)
  IN  Sgn(x) * Unit(v)

\* np.cos
Cos(x) ==
  LET r == Reduce(Abs(x))
  IN  Unit(IF r <= Pi THEN CosHalf(r) ELSE CosHalf(TwoPi - r))

\* np.tan
Tan(x) == DivFix(Sin(x), Cos(x))

\* number of halvings of [0, pi] in ArcCos
BisectSteps == 23

RECURSIVE Bisect(_, _, _, _)
Bisect(c, lo, hi, n) ==
  IF n = 0 \/ hi - lo <= 1 THEN lo
  ELSE LET mid == (lo + hi) \div 2
       IN  IF Cos(mid) > c THEN Bisect(c, mid, hi, n - 1)
           ELSE Bisect(c, lo, mid, n - 1)

\* np.arccos on [-1, 1]: the angle in [0, pi] whose cosine is c
ArcCos(c) ==
  IF c >= Scale THEN 0
  ELSE IF c <= 0 - Scale THEN Pi
  ELSE LET lo == Bisect(c, 0, Pi, BisectSteps)
       IN  IF Abs(Cos(lo + 1) - c) < Abs(Cos(lo) - c) THEN lo + 1 ELSE lo

\* np.clip(v, -1.0, 1.0)
Clip(v) == IF v > Scale THEN Scale ELSE IF v < 0 - Scale THEN 0 - Scale ELSE v

\* ------------------------------------------------------ declination
\* day-of-year inputs, in units of 1 / DayRes day: 1 <= day < 367
Days == DayRes .. (367 * DayRes - 1)

\* mutant: the constant term 0.006918 written 0.06918
spencer_constant_slip(k) ==
  LET beta == Radians(RatioFix(360 * (k - DayRes), 365 * DayRes))
  IN  Degrees(69180
              - MulFix(399912, Cos(beta)) + MulFix(70257, Sin(beta))
              - MulFix(6758, Cos(2 * beta)) + MulFix(9070, Sin(2 * beta))
              - MulFix(2697, Cos(3 * beta)) + MulFix(1480, Sin(3 * beta)))

\* get_declination_spencer: the seven-term series in beta, in degrees
get_declination_spencer(k) ==
  LET beta == Radians(RatioFix(360 * (k - DayRes), 365 * DayRes))
  IN  Degrees(6918
              - MulFix(399912, Cos(beta)) + MulFix(70257, Sin(beta))
              - MulFix(6758, Cos(2 * beta)) + MulFix(9070, Sin(2 * beta))
              - MulFix(2697, Cos(3 * beta)) + MulFix(1480, Sin(3 * beta)))

\* mutant: the offset 284 written 248
kuper_offset_slip(k) ==
  MulFix(23450000,
         Sin(Radians(RatioFix(360 * (248 * DayRes + k), 365 * DayRes))))

\* get_declination_kuper: 23.45 * sin(radians(360 * (284 + day) / 365))
get_declination_kuper(k) ==
  MulFix(23450000,
         Sin(Radians(RatioFix(360 * (284 * DayRes + k), 365 * DayRes))))

\* ------------------------------------------- calculate_daylight_hours
\* mutant: 0.8333 degrees used as radians
refraction_not_converted == 8333 * 100

\* refraction_correction = np.radians(0.8333)
refraction_correction == Radians(833300)

CeilDiv(a, b) == (a + b - 1) \div b

\* the guard's 1e-10 as a fixed-point real: the least integer >= Scale * 1e-10
Eps == CeilDiv(CeilDiv(Scale, 100000), 100000)

\* test_cos = cos(lat_rad) * cos(dec_rad)
TestCos(lr, dr) == MulFix(Cos(lr), Cos(dr))

\* mutant: the comparison inverted
NearSingularInverted(tc) == Abs(tc) > Eps

\* abs(test_cos) < 1e-10
NearSingular(tc) == Abs(tc) < Eps

\* 24.0 if sin(lat_rad) * sin(dec_rad) > 0 else 0.0 (the sign of the
\* product, which a float product of these magnitudes keeps)
GuardValue(lr, dr) ==
  IF Sin(lr) # 0 /\ Sin(dr) # 0 /\ Sgn(Sin(lr)) = Sgn(Sin(dr))
  THEN 24 * Scale ELSE 0

\* mutant: the refraction term added instead of subtracted
CosHRefractionAdded(lr, dr) ==
  0 - MulFix(Tan(lr), Tan(dr))
    + DivFix(Sin(refraction_correction), MulFix(Cos(lr), Cos(dr)))

\* mutant: the refraction term left out
CosHNoRefraction(lr, dr) == 0 - MulFix(Tan(lr), Tan(dr))

\* cos_h = -tan(lat) * tan(dec) - sin(refraction) / (cos(lat) * cos(dec))
CosH(lr, dr) ==
  0 - MulFix(Tan(lr), Tan(dr))
    - DivFix(Sin(refraction_correction), MulFix(Cos(lr), Cos(dr)))

\* mutant: cos_h clamped first, the polar returns tested strictly after
PolarCaseAfterClamp(c) ==
  IF Clip(c) > Scale THEN "night"
  ELSE IF Clip(c) < 0 - Scale THEN "day"
  ELSE "none"

\* mutant: the two polar returns exchanged
PolarCaseSwapped(c) ==
  IF c >= Scale THEN "day"
  ELSE IF c <= 0 - Scale THEN "night"
  ELSE "none"

\* the two polar returns, decided on cos_h as computed
PolarCase(c) ==
  IF c >= Scale THEN "night"
  ELSE IF c <= 0 - Scale THEN "day"
  ELSE "none"

\* h = np.degrees(np.arccos(cos_h))
HourAngle(c) == Degrees(ArcCos(c))

\* mutant: the hour angle doubled twice
DaylightFromHDoubled(hh) == RDiv(4 * hh, 15)

\* daylight = 2 * h / 15.0
DaylightFromH(hh) == RDiv(2 * hh, 15)

\* the whole function: the return path taken and the hours returned
calculate_daylight_hours(k, lat) ==
  LET dec == get_declination_spencer(k)
      lr  == Radians(lat)
      dr  == Radians(dec)
  IN  IF NearSingular(TestCos(lr, dr))
      THEN [path |-> "guard", hours |-> GuardValue(lr, dr)]
      ELSE LET c == CosH(lr, dr)
           IN  IF PolarCase(c) = "night" THEN [path |-> "night", hours |-> 0]
               ELSE IF PolarCase(c) = "day"
                    THEN [path |-> "day", hours |-> 24 * Scale]
               ELSE [path |-> "formula",
                     hours |-> DaylightFromH(HourAngle(Clip(c)))]

\* latitude inputs, degrees: a grid between the poles, the poles, and the
\* latitudes the documented scenarios name
LatStep == (90 * Scale) \div NLat

Moscow == 55664590

Latitudes ==
  {i * LatStep : i \in (1 - NLat) .. (NLat - 1)}
    \cup {s * v : s \in {0 - 1, 1},
                  v \in {90 * Scale, 89 * Scale, 80 * Scale, Moscow}}

\* --------------------------------------------- plot_daylight_duration
\* the calendar years the clock and the year argument range over
FirstYear == 2023

LastYear == 2024

\* days the clock may advance while one call runs
MaxTicks == 2

\* year=None
NoYear == 0 - 1

\* freq = 30: points per day
freq == 30

\* calendar.isleap
isleap(y) == (y % 4 = 0 /\ y % 100 # 0) \/ y % 400 = 0

\* days of month m of year y, as datetime counts them
DaysInMonth(y, m) ==
  IF m = 2 THEN (IF isleap(y) THEN 29 ELSE 28)
  ELSE IF m \in {4, 6, 9, 11} THEN 30 ELSE 31

\* datetime(y, m, d) is constructed; otherwise it raises ValueError
ValidDate(y, m, d) == m \in 1 .. 12 /\ d \in 1 .. DaysInMonth(y, m)

\* the clock one day later
NextDay(t) ==
  IF t.d < DaysInMonth(t.y, t.m) THEN [t EXCEPT !.d = t.d + 1]
  ELSE IF t.m < 12 THEN [y |-> t.y, m |-> t.m + 1, d |-> 1]
  ELSE [y |-> t.y + 1, m |-> 1, d |-> 1]

\* what datetime.now(tz) may be when the call starts
ClockDates ==
  {t \in [y : FirstYear .. LastYear, m : 1 .. 12, d : 1 .. 31] :
     ValidDate(t.y, t.m, t.d)}

NoDate == [y |-> 0, m |-> 0, d |-> 0]

\* no call of plot_daylight_duration in progress
PlotIdle ==
  [pc |-> "idle", now |-> NoDate, year_arg |-> NoYear, show_solstices |-> FALSE,
   year |-> Unset, days_in_year |-> Unset, n_points |-> Unset,
   month |-> Unset, dayofmonth |-> Unset, today |-> NoDate, ticks |-> 0]

VARIABLES pc, day, latitude, declination, lat_rad, dec_rad, test_cos,
          cos_h, h, result, path, kuper, plot

vars == <<pc, day, latitude, declination, lat_rad, dec_rad, test_cos,
          cos_h, h, result, path, kuper, plot>>

\* one call calculate_daylight_hours(day, latitude), about to start
Init ==
  /\ pc = "start"
  /\ day \in Days
  /\ latitude \in Latitudes
  /\ declination = Unset
  /\ lat_rad = Unset
  /\ dec_rad = Unset
  /\ test_cos = Unset
  /\ cos_h = Unset
  /\ h = Unset
  /\ result = Unset
  /\ path = "none"
  /\ kuper = Unset
  /\ plot = PlotIdle

\* lines 35-46: declination, the radians, test_cos
Prepare ==
  /\ pc = "start"
  /\ declination' = get_declination_spencer(day)
  /\ lat_rad' = Radians(latitude)
  /\ dec_rad' = Radians(get_declination_spencer(day))
  /\ test_cos' = TestCos(Radians(latitude), Radians(get_declination_spencer(day)))
  /\ pc' = "guard"
  /\ UNCHANGED <<day, latitude, cos_h, h, result, path, kuper, plot>>

\* lines 47-48: the near-singular return
GuardReturn ==
  /\ pc = "guard"
  /\ NearSingular(test_cos)
  /\ result' = GuardValue(lat_rad, dec_rad)
  /\ path' = "guard"
  /\ pc' = "done"
  /\ UNCHANGED <<day, latitude, declination, lat_rad, dec_rad, test_cos,
                 cos_h, h, kuper, plot>>

\* line 51: the division, reached only past the guard
ComputeCosH ==
  /\ pc = "guard"
  /\ ~NearSingular(test_cos)
  /\ cos_h' = CosH(lat_rad, dec_rad)
  /\ pc' = "polar"
  /\ UNCHANGED <<day, latitude, declination, lat_rad, dec_rad, test_cos,
                 h, result, path, kuper, plot>>

\* lines 53-54
PolarNight ==
  /\ pc = "polar"
  /\ PolarCase(cos_h) = "night"
  /\ result' = 0
  /\ path' = "night"
  /\ pc' = "done"
  /\ UNCHANGED <<day, latitude, declination, lat_rad, dec_rad, test_cos,
                 cos_h, h, kuper, plot>>

\* lines 55-56
PolarDay ==
  /\ pc = "polar"
  /\ PolarCase(cos_h) = "day"
  /\ result' = 24 * Scale
  /\ path' = "day"
  /\ pc' = "done"
  /\ UNCHANGED <<day, latitude, declination, lat_rad, dec_rad, test_cos,
                 cos_h, h, kuper, plot>>

\* line 59
Clamp ==
  /\ pc = "polar"
  /\ PolarCase(cos_h) = "none"
  /\ cos_h' = Clip(cos_h)
  /\ pc' = "arccos"
  /\ UNCHANGED <<day, latitude, declination, lat_rad, dec_rad, test_cos,
                 h, result, path, kuper, plot>>

\* lines 62-65
Formula ==
  /\ pc = "arccos"
  /\ h' = HourAngle(cos_h)
  /\ result' = DaylightFromH(HourAngle(cos_h))
  /\ path' = "formula"
  /\ pc' = "done"
  /\ UNCHANGED <<day, latitude, declination, lat_rad, dec_rad, test_cos,
                 cos_h, kuper, plot>>

Next ==
  \/ Prepare
  \/ GuardReturn
  \/ ComputeCosH
  \/ PolarNight
  \/ PolarDay
  \/ Clamp
  \/ Formula

Spec == Init /\ [][Next]_vars

\* ------------------------------------- the two declination strategies
\* both strategies applied to one day-of-year
InitDecl ==
  /\ pc = "decl"
  /\ day \in Days
  /\ latitude = 0
  /\ declination = Unset
  /\ lat_rad = Unset
  /\ dec_rad = Unset
  /\ test_cos = Unset
  /\ cos_h = Unset
  /\ h = Unset
  /\ result = Unset
  /\ path = "none"
  /\ kuper = Unset
  /\ plot = PlotIdle

\* lines 17-25
CallSpencer ==
  /\ pc = "decl"
  /\ declination' = get_declination_spencer(day)
  /\ pc' = "decl_kuper"
  /\ UNCHANGED <<day, latitude, lat_rad, dec_rad, test_cos, cos_h, h,
                 result, path, kuper, plot>>

\* lines 28-30
CallKuper ==
  /\ pc = "decl_kuper"
  /\ kuper' = get_declination_kuper(day)
  /\ pc' = "decl_done"
  /\ UNCHANGED <<day, latitude, declination, lat_rad, dec_rad, test_cos,
                 cos_h, h, result, path, plot>>

NextDecl ==
  \/ CallSpencer
  \/ CallKuper

SpecDecl == InitDecl /\ [][NextDecl]_vars

\* ------------------------------------- plot_daylight_duration, dates
calcVars == <<pc, day, latitude, declination, lat_rad, dec_rad, test_cos,
              cos_h, h, result, path, kuper>>

\* a call plot_daylight_duration(latitude, year, show_solstices, tz)
InitPlot ==
  /\ pc = "idle"
  /\ day = DayRes
  /\ latitude = Moscow
  /\ declination = Unset
  /\ lat_rad = Unset
  /\ dec_rad = Unset
  /\ test_cos = Unset
  /\ cos_h = Unset
  /\ h = Unset
  /\ result = Unset
  /\ path = "none"
  /\ kuper = Unset
  /\ \E t \in ClockDates, a \in {NoYear} \cup (FirstYear .. LastYear),
        s \in BOOLEAN :
       plot = [PlotIdle EXCEPT !.pc = "start", !.now = t, !.year_arg = a,
                               !.show_solstices = s]

\* the wall clock passes midnight while the call runs
Tick ==
  /\ plot.pc \in {"start", "series", "read_month", "read_day", "make_today"}
  /\ plot.ticks < MaxTicks
  /\ plot' = [plot EXCEPT !.now = NextDay(plot.now), !.ticks = plot.ticks + 1]
  /\ UNCHANGED calcVars

\* lines 82-86
SetYear ==
  /\ plot.pc = "start"
  /\ LET yr == IF plot.year_arg = NoYear THEN plot.now.y ELSE plot.year_arg
     IN  plot' = [plot EXCEPT !.year = yr,
                              !.days_in_year = IF isleap(yr) THEN 366 ELSE 365,
                              !.pc = "series"]
  /\ UNCHANGED calcVars

\* lines 90-134: the sampled days, one tick per sample
BuildSeries ==
  /\ plot.pc = "series"
  /\ plot' = [plot EXCEPT !.n_points = plot.days_in_year * freq,
                          !.pc = IF plot.show_solstices THEN "read_month"
                                 ELSE "finish"]
  /\ UNCHANGED calcVars

\* line 141: datetime.now(tz=tz).month
ReadMonth ==
  /\ plot.pc = "read_month"
  /\ plot' = [plot EXCEPT !.month = plot.now.m, !.pc = "read_day"]
  /\ UNCHANGED calcVars

\* line 141: datetime.now(tz=tz).day
ReadDay ==
  /\ plot.pc = "read_day"
  /\ plot' = [plot EXCEPT !.dayofmonth = plot.now.d, !.pc = "make_today"]
  /\ UNCHANGED calcVars

\* line 141: datetime(year, month, day) is a date
MakeToday ==
  /\ plot.pc = "make_today"
  /\ ValidDate(plot.year, plot.month, plot.dayofmonth)
  /\ plot' = [plot EXCEPT !.today = [y |-> plot.year, m |-> plot.month,
                                     d |-> plot.dayofmonth],
                          !.pc = "annotate"]
  /\ UNCHANGED calcVars

\* line 141: datetime(year, month, day) raises ValueError
RaiseValueError ==
  /\ plot.pc = "make_today"
  /\ ~ValidDate(plot.year, plot.month, plot.dayofmonth)
  /\ plot' = [plot EXCEPT !.pc = "ValueError"]
  /\ UNCHANGED calcVars

\* lines 144-167
Annotate ==
  /\ plot.pc = "annotate"
  /\ plot' = [plot EXCEPT !.pc = "finish"]
  /\ UNCHANGED calcVars

\* lines 169-182
Finish ==
  /\ plot.pc = "finish"
  /\ plot' = [plot EXCEPT !.pc = "returned"]
  /\ UNCHANGED calcVars

NextPlot ==
  \/ Tick
  \/ SetYear
  \/ BuildSeries
  \/ ReadMonth
  \/ ReadDay
  \/ MakeToday
  \/ RaiseValueError
  \/ Annotate
  \/ Finish

SpecPlot == InitPlot /\ [][NextPlot]_vars

\* ---------------------------------------------------------- claims
\* C1: for every day in [1, 367) and latitude strictly between the poles,
\* the hours returned lie in [0, 24], whichever return path is taken.
DaylightInRange ==
  (pc = "done" /\ Abs(latitude) < 90 * Scale)
    => (0 <= result /\ result <= 24 * Scale)

\* a call between the poles that returned more than 20 hours from the formula
DaylightInRangeWitness ==
  /\ pc = "done"
  /\ Abs(latitude) < 90 * Scale
  /\ path = "formula"
  /\ result > 20 * Scale

\* C2: the polar returns are decided on cos_h as computed at line 51:
\* >= 1 returns exactly 0, <= -1 returns exactly 24; only a cos_h strictly
\* inside (-1, 1) reaches the clamp, which leaves it unchanged, and the
\* result is 2 * degrees(arccos(cos_h)) / 15.
PolarBeforeClamp ==
  LET raw == CosH(lat_rad, dec_rad)
  IN  /\ (pc = "done" /\ path = "night") => (raw >= Scale /\ result = 0)
      /\ (pc = "done" /\ path = "day")
           => (raw <= 0 - Scale /\ result = 24 * Scale)
      /\ (pc = "arccos" \/ (pc = "done" /\ path = "formula"))
           => (0 - Scale < raw /\ raw < Scale /\ cos_h = raw)
      /\ (pc = "done" /\ path = "formula")
           => result = RDiv(2 * Degrees(ArcCos(raw)), 15)

\* a cos_h within 0.1 of a polar threshold that has passed the clamp
PolarBeforeClampWitness == pc = "arccos" /\ Abs(cos_h) > 9 * (Scale \div 10)

\* C3: whenever |cos(lat) * cos(dec)| < 1e-10 the call returns before the
\* division of line 51 is evaluated, with exactly 24 when
\* sin(lat) * sin(dec) > 0 and exactly 0 otherwise; the division is only
\* evaluated on a denominator that is not near zero and gives a finite cos_h.
GuardShortCircuit ==
  /\ (pc = "done" /\ path = "guard")
       => /\ Abs(test_cos) < Eps
          /\ cos_h = Unset
          /\ h = Unset
          /\ result = IF \/ (Sin(lat_rad) > 0 /\ Sin(dec_rad) > 0)
                         \/ (Sin(lat_rad) < 0 /\ Sin(dec_rad) < 0)
                      THEN 24 * Scale ELSE 0
  /\ (test_cos # Unset /\ Abs(test_cos) < Eps)
       => /\ cos_h = Unset
          /\ pc \in {"guard", "done"}
          /\ pc = "done" => path = "guard"
  /\ cos_h # Unset => Abs(cos_h) < Huge

\* a call at a pole that returned 24 hours through the guard
GuardShortCircuitWitness ==
  pc = "done" /\ path = "guard" /\ result = 24 * Scale

\* C4 as stated: at the equator the day is within 0.05 hours of 12.
EquatorWithinFiveHundredths ==
  (pc = "done" /\ latitude = 0)
    => (11950000 <= result /\ result <= 12050000)

\* C4 as amended: at the equator the day is within 0.13 hours of 12, the
\* refraction term lengthening it to between 12.11 and 12.13 hours.
EquatorRefractedDay ==
  (pc = "done" /\ latitude = 0)
    => (12110000 <= result /\ result <= 12130000)

\* a call at the equator that returned from the formula
EquatorWitness == pc = "done" /\ latitude = 0 /\ path = "formula"

\* the same day at the mirrored latitude
Mirror == calculate_daylight_hours(day, 0 - latitude)

\* both hemispheres return from the formula, declination not zero
MirrorApplies ==
  /\ pc = "done"
  /\ path = "formula"
  /\ Abs(latitude) < 90 * Scale
  /\ declination # 0
  /\ Mirror.path = "formula"

\* tolerance read into "approximately 24": half an hour
SymTol == Scale \div 2

\* C5 as stated: the two hemispheres' days sum to approximately 24 hours.
MirrorSumIsTwentyFour ==
  MirrorApplies => Abs(result + Mirror.hours - 24 * Scale) <= SymTol

\* C5 as amended: the two hemispheres' days sum to at least 24.2 hours,
\* the refraction term lengthening both.
MirrorSumExceedsTwentyFour ==
  MirrorApplies => result + Mirror.hours >= 24200000

\* the mirrored pair at Moscow's latitude
MirrorWitness == MirrorApplies /\ latitude = Moscow

\* C6 as stated: both strategies stay within [-23.45, 23.45] degrees.
DeclinationWithinObliquity ==
  pc = "decl_done"
    => (Abs(declination) <= 23450000 /\ Abs(kuper) <= 23450000)

\* C6 as amended: get_declination_kuper stays within [-23.45, 23.45] and
\* get_declination_spencer within [-23.6, 23.45] degrees.
DeclinationRange ==
  pc = "decl_done"
    => /\ 0 - 23600000 <= declination
       /\ declination <= 23450000
       /\ Abs(kuper) <= 23450000

\* a day on which get_declination_spencer is below -23.45 degrees
DeclinationRangeWitness == pc = "decl_done" /\ declination < 0 - 23450000

\* C7 as stated: the two strategies agree within 0.5 degrees.
StrategiesAgreeHalfDegree ==
  pc = "decl_done" => Abs(declination - kuper) <= 500000

\* C7 as amended: the two strategies agree within 1.5 degrees.
StrategiesAgree ==
  pc = "decl_done" => Abs(declination - kuper) <= 1500000

\* a day on which the strategies differ by more than 1.3 degrees
StrategiesAgreeWitness ==
  pc = "decl_done" /\ Abs(declination - kuper) > 1300000

\* C8: at latitude 80 north day 355 returns 0 through the cos_h >= 1
\* return and day 172 returns 24 through the cos_h <= -1 return.
PolarBoundaryAt80 ==
  /\ (pc = "done" /\ latitude = 80 * Scale /\ day = 355 * DayRes)
       => (result = 0 /\ path = "night")
  /\ (pc = "done" /\ latitude = 80 * Scale /\ day = 172 * DayRes)
       => (result = 24 * Scale /\ path = "day")

\* the day-172 call at latitude 80 has returned through the polar-day return
PolarBoundaryWitness ==
  pc = "done" /\ latitude = 80 * Scale /\ day = 172 * DayRes /\ path = "day"

\* C9: at latitude 55.66459 day 80 gives between 12.1 and 12.3 hours,
\* day 172 between 17.4 and 17.6, day 355 between 6.9 and 7.1.
MoscowReferenceValues ==
  (pc = "done" /\ latitude = Moscow)
    => /\ day = 80 * DayRes => (12100000 <= result /\ result <= 12300000)
       /\ day = 172 * DayRes => (17400000 <= result /\ result <= 17600000)
       /\ day = 355 * DayRes => (6900000 <= result /\ result <= 7100000)

\* the day-80 call at Moscow's latitude has returned from the formula
MoscowWitness ==
  pc = "done" /\ latitude = Moscow /\ day = 80 * DayRes /\ path = "formula"

\* C10: the 'today' reference date (year, current month, current day) is
\* always a date of the plotted year, so building the reference dates
\* never raises.
TodayIsADate ==
  /\ plot.pc # "ValueError"
  /\ plot.pc \in {"annotate", "finish", "returned"} /\ plot.show_solstices
       => (plot.today.y = plot.year
           /\ ValidDate(plot.today.y, plot.today.m, plot.today.d))

====
